---------------------------- MODULE Spec2Model ----------------------------
(***************************************************************************)
(* Model of src/server.js: an Express server that starts one background    *)
(* task (processUniversityPDFs) per accepted POST /api/process-pdfs, keeps *)
(* every job's pollable record in the in-memory Map `jobs`, and serves it  *)
(* on GET /api/jobs/:jobId.                                                *)
(*                                                                         *)
(* Node runs every handler and every continuation of an async function to  *)
(* its next `await` without preemption, so one action of the model is one  *)
(* such run: an HTTP handler, the timer callback, or the continuation that *)
(* a settled promise (an upstream response, a PDF parse) resumes.          *)
(*                                                                         *)
(* JavaScript strings are TLA+ strings; TLC evaluates Len, \o and SubSeq   *)
(* on them.  Positions are 0-based as in JavaScript.                       *)
(***************************************************************************)
EXTENDS Integers, Sequences, FiniteSets, TLC

(***************************************************************************)
(* Bounds of the exploration.                                              *)
(***************************************************************************)
MaxJobs == 2
\* the largest agreements listing the upstream returns
MaxPartners == 2
\* upstream requests issued in total, over all jobs
MaxUpstream == 6
\* firings of the hourly timer
MaxSweeps == 2

(***************************************************************************)
(* String helpers with JavaScript's semantics.                             *)
(***************************************************************************)
Min(a, b) == IF a < b THEN a ELSE b

Max(a, b) == IF a > b THEN a ELSE b

\* the character at 0-based position i
CharAt(s, i) == SubSeq(s, i + 1, i + 1)

\* String.prototype.substring(start, end): both clamped to [0, length],
\* swapped when start > end
Substring(s, start, end) ==
    LET a == Max(0, Min(start, Len(s)))
        b == Max(0, Min(end, Len(s)))
    IN  SubSeq(s, Min(a, b) + 1, Max(a, b))

\* String.prototype.substring(start)
SubstringFrom(s, start) == Substring(s, start, Len(s))

RECURSIVE IndexOfFrom(_, _, _)
IndexOfFrom(s, t, i) ==
    IF i + Len(t) > Len(s) THEN -1
    ELSE IF SubSeq(s, i + 1, i + Len(t)) = t THEN i
    ELSE IndexOfFrom(s, t, i + 1)

\* String.prototype.indexOf(t): 0-based position of the first occurrence, -1 if none
IndexOf(s, t) == IndexOfFrom(s, t, 0)

\* String.prototype.includes(t)
Includes(s, t) == IndexOf(s, t) # -1

\* representatives of the code units /[\u0000-\u001F\u007F-\u009F]/ matches
ControlChars == {"\t", "\n", "\r", "\f"}

\* what String.prototype.trim() removes (the control characters above are white space too)
WhiteSpace == {" "} \cup ControlChars

RECURSIVE StripControl(_)
\* s.replace(/[\u0000-\u001F\u007F-\u009F]/g, "")
StripControl(s) ==
    IF Len(s) = 0 THEN ""
    ELSE IF Len(s) = 1 THEN (IF s \in ControlChars THEN "" ELSE s)
    ELSE StripControl(SubSeq(s, 1, Len(s) \div 2))
         \o StripControl(SubSeq(s, Len(s) \div 2 + 1, Len(s)))

RECURSIVE TrimStart(_)
TrimStart(s) ==
    IF s = "" THEN ""
    ELSE IF Head(s) \in WhiteSpace THEN TrimStart(Tail(s))
    ELSE s

RECURSIVE TrimEnd(_)
TrimEnd(s) ==
    IF s = "" THEN ""
    ELSE IF CharAt(s, Len(s) - 1) \in WhiteSpace THEN TrimEnd(Substring(s, 0, Len(s) - 1))
    ELSE s

\* String.prototype.trim()
Trim(s) == TrimEnd(TrimStart(s))


(***************************************************************************)
(* checkCourseArticulation, lines 169-248.  `parsed` is how the promise    *)
(* of PDFParser(pdfBuffer) settled: [ok |-> TRUE, text |-> t] or           *)
(* [ok |-> FALSE, message |-> m].  Results are records with the fields     *)
(* the code returns.  A value that is null or a string is a sequence of    *)
(* at most one string: Null is null, <<s>> is the string s.                *)
(***************************************************************************)
Null == <<>>

\* the two code units U+00E2 U+2020 of line 200 (neither is a control character)
Arrow == "~>"

\* line 206: the window is substring(arrowIndex, arrowIndex + 30)
WindowLen == 30

\* notArticulated without its third phrase
notArticulatedTwo == <<"No Course Articulated", "No Comparable Course">>

\* lines 210-214
notArticulated == <<"No Course Articulated", "No Comparable Course", "Course(s) Denied">>

\* CollegeOf with substring(0, yearIndex): the character before the year is kept
CollegeOfKeepsSeparator(cleanText) ==
    LET fromIndex == IndexOf(cleanText, "From:")
    IN  IF fromIndex = -1 THEN ""
        ELSE LET afterFrom == SubstringFrom(cleanText, fromIndex + 6)
                 yearIndex == IndexOf(afterFrom, "2")
             IN  IF yearIndex = -1 THEN ""
                 ELSE Trim(Substring(afterFrom, 0, yearIndex))

\* lines 180-190: the college name of the "From:" line
CollegeOf(cleanText) ==
    LET fromIndex == IndexOf(cleanText, "From:")
    IN  IF fromIndex = -1 THEN ""
        ELSE LET afterFrom == SubstringFrom(cleanText, fromIndex + 6)
                 yearIndex == IndexOf(afterFrom, "2")
             IN  IF yearIndex = -1 THEN ""
                 ELSE Trim(Substring(afterFrom, 0, yearIndex - 1))

\* ArticulationOf with the arrow looked for in the whole text, not after the course
ArticulationOfArrowAnywhere(text, course, key) ==
    LET cleanCourse == StripControl(course)
        cleanText == StripControl(text)
        college == CollegeOf(cleanText)
        searchPosition == IndexOf(cleanText, cleanCourse)
        arrowIndex == IndexOf(cleanText, Arrow)
        articulatedSection == Substring(cleanText, arrowIndex, arrowIndex + WindowLen)
        isNotArticulated ==
            \E p \in 1..Len(notArticulated) : Includes(articulatedSection, notArticulated[p])
    IN  IF searchPosition # -1 /\ arrowIndex # -1 /\ ~isNotArticulated
        THEN [college |-> college, isArticulated |-> TRUE,
              articulatedCourse |-> <<Trim(articulatedSection)>>, key |-> key]
        ELSE [college |-> college, isArticulated |-> FALSE,
              articulatedCourse |-> Null, key |-> key]

\* lines 175-237: the result once the text is there
ArticulationOf(text, course, key) ==
    LET cleanCourse == StripControl(course)
        cleanText == StripControl(text)
        college == CollegeOf(cleanText)
        searchPosition == IndexOf(cleanText, cleanCourse)
        afterCourse == SubstringFrom(cleanText, searchPosition + Len(cleanCourse))
        arrowIndex == IndexOf(afterCourse, Arrow)
        articulatedSection == Substring(afterCourse, arrowIndex, arrowIndex + WindowLen)
        isNotArticulated ==
            \E p \in 1..Len(notArticulated) : Includes(articulatedSection, notArticulated[p])
    IN  IF searchPosition # -1 /\ arrowIndex # -1 /\ ~isNotArticulated
        THEN [college |-> college, isArticulated |-> TRUE,
              articulatedCourse |-> <<Trim(articulatedSection)>>, key |-> key]
        ELSE [college |-> college, isArticulated |-> FALSE,
              articulatedCourse |-> Null, key |-> key]

\* lines 169-248, with the catch of lines 238-247
checkCourseArticulation(parsed, course, key) ==
    IF parsed.ok THEN ArticulationOf(parsed.text, course, key)
    ELSE [college |-> "", isArticulated |-> FALSE, articulatedCourse |-> Null,
          key |-> key, error |-> parsed.message]


(***************************************************************************)
(* The requests of a client and the answers of the upstream service and of *)
(* the PDF parser: the inputs of the program.                              *)
(***************************************************************************)
\* request bodies of POST /api/process-pdfs; a field may be absent or empty
Bodies ==
    {[university |-> u, major |-> "CS", course |-> "CS 101"] : u \in {"UCLA", "ucla"}}
    \cup {[major |-> "CS", course |-> "CS 101"],
          [university |-> "UCLA", course |-> "CS 101"],
          [university |-> "UCLA", major |-> "CS"],
          [university |-> "UCLA", major |-> "", course |-> "CS 101"]}

\* a rejected promise of axios.get or PDFParser
Rejected(message) == [ok |-> FALSE, message |-> message]

\* a fulfilled promise of axios.get
Fulfilled(status, data) == [ok |-> TRUE, status |-> status, data |-> data]

\* GET /api/institutions: entries {id, names: [{name}, ...]}
Directories ==
    {<<[id |-> 2, names |-> <<[name |-> "UC"], [name |-> "ucla"]>>],
       [id |-> 1, names |-> <<[name |-> "UCLA"]>>],
       [id |-> 3, names |-> <<[name |-> "UCLA"]>>]>>,
     <<[id |-> 0, names |-> <<[name |-> "UCLA"]>>]>>}

InstitutionsResponses ==
    {Rejected("Network Error")} \cup {Fulfilled(200, d) : d \in Directories}

PartnerIds == {5, 6}

\* GET /api/institutions/{id}/agreements: entries {institutionParentId}, duplicates possible
AgreementListings ==
    UNION {[1..n -> {[institutionParentId |-> p] : p \in PartnerIds}] : n \in 0..MaxPartners}

AgreementsResponses ==
    {Rejected("Request failed with status code 500")}
    \cup {Fulfilled(200, a) : a \in AgreementListings}

\* GET /api/agreements?...&categoryCode=major: {reports: [{label, key}, ...]}, or no reports
MajorListings ==
    {[none |-> TRUE],
     [reports |-> <<[label |-> "Math", key |-> "k0"]>>],
     [reports |-> <<[label |-> "Math", key |-> "k0"], [label |-> "CS", key |-> "k1"],
                    [label |-> "CS", key |-> "k2"]>>]}

MajorsResponses ==
    {Rejected("timeout of 0ms exceeded")} \cup {Fulfilled(200, m) : m \in MajorListings}

\* GET /api/artifacts/{key}: axios rejects outside 2xx; the bytes are not modelled,
\* what they hold is the parser's answer
ArtifactResponses ==
    {Rejected("Request failed with status code 404"), Fulfilled(204, ""), Fulfilled(200, "%PDF")}

\* document texts pdf-parse extracts
Texts ==
    {"From: SMC 2021-2022 CS 101 ~>CS 1",
     "From: ELAC 2021-2022 CS 101 ~>CS 1",
     "To: UCLA CS 101 ~>CS 1",
     "From: SMC 2021-2022 CS 101 ~>No Course Articulated"}

ParseResults ==
    {Rejected("Invalid PDF structure")} \cup {[ok |-> TRUE, text |-> t] : t \in Texts}

\* the course parameter of line 169: with a control character inside, of control
\* characters only, and one that few documents mention
ExtractorCourses == {"CS 101", "CS 1\n01", "\t", "MATH 2"}

\* how a document begins: with or without a "From:" line, a year or a separator
Heads ==
    {"", "From: SMC 2021-2022 ", "From: Santa Monica College 2021-2022 ", "From: SMC ",
     "From:2021 ", "To: UCLA ", "Fro\tm: E\nLAC-2021 ", "From: "}

\* how it goes on: the course with or without an arrow after it, an arrow before it
\* only, a phrase of notArticulated inside the window, across its end, or after a
\* second arrow
Passages ==
    {"", "CS 101", "CS 101 ~>CS 1", "CS\r 101 ~>\tCS 1 ", "~>CS 2 CS 101",
     "CS 101 ~>No Course Articulated",
     "CS 101 ~>       No Course Articulated",
     "CS 101 ~>        No Course Articulated",
     "CS 101 MATH 2 ~>No Comparable Course",
     "CS 101 ~> Course(s) Denied",
     "CS 101 ~>CS 1 ~>Course(s) Denied",
     "CS 101 ~>CS 1 CS 101 ~>No Course Articulated",
     "CS 101 ~>No Course Articulated CS 101 ~>CS 1",
     "CS 101 ~>CS 1 and a tail past the window"}

\* data.text of line 178
ExtractorTexts == {h \o p : h \in Heads, p \in Passages}

\* how the promise of line 172 settles
ExtractorParseResults ==
    {Rejected("Invalid PDF structure")} \cup {[ok |-> TRUE, text |-> t] : t \in ExtractorTexts}

\* checkCourseArticulation on every answer of the parser and every course above, for
\* the key "": each result is computed once, whatever number of steps reads it
Extractions ==
    [parsed \in ParseResults \cup ExtractorParseResults, course \in ExtractorCourses |->
        checkCourseArticulation(parsed, course, "")]


(***************************************************************************)
(* The state.                                                              *)
(***************************************************************************)
VARIABLES
    jobs,     \* the Map of line 14: job id -> record
    task,     \* job id -> the frame of its processUniversityPDFs call
    nextId,   \* the ids generateJobId has handed out are 1 .. nextId - 1
    now,      \* Date.now(), in milliseconds since the server started
    http,     \* the HTTP exchange answered last: [req |-> ..., res |-> ...]
    reqs,     \* history: job id -> the upstream requests its task has issued
    resps,    \* history: job id -> how those requests settled, in the same order
    checks,   \* history: job id -> per partner handled, how handling it ended
    created   \* history: job id -> Date.now() when its task started

vars == <<jobs, task, nextId, now, http, reqs, resps, checks, created>>

\* line 265 and line 271: 60 * 60 * 1000
HourMs == 60 * 60 * 1000

\* line 69: let universityId = null (institution ids are naturals)
NullId == -1

\* !v for a universityId
Falsy(v) == v = NullId \/ v = 0

(***************************************************************************)
(* The Job Store.                                                          *)
(***************************************************************************)
\* jobs.set(jobId, job)
jobsSet(js, jobId, job) ==
    [k \in DOMAIN js \cup {jobId} |-> IF k = jobId THEN job ELSE js[k]]

\* updateJobProgress through one shared "current job": every record gets the progress
updateJobProgressShared(js, jobId, progress) ==
    [k \in DOMAIN js |-> [js[k] EXCEPT !.progress = progress]]

\* lines 255-261
updateJobProgress(js, jobId, progress) ==
    IF jobId \in DOMAIN js THEN [js EXCEPT ![jobId].progress = progress] ELSE js

\* lines 55-60
ProcessingJob ==
    [status |-> "processing", progress |-> "Fetching institutions...",
     applicableColleges |-> <<>>, error |-> Null]

\* CompletedJob with articulatedCount taken from processedCount
CompletedJobCountsProcessed(applicableColleges, processedCount, course) ==
    [status |-> "completed", progress |-> "Done",
     applicableColleges |-> applicableColleges, error |-> Null,
     totalProcessed |-> processedCount,
     articulatedCount |-> processedCount,
     summary |-> "Found " \o ToString(Len(applicableColleges))
                 \o " colleges that articulate the course \"" \o course \o "\""]

\* lines 148-156
CompletedJob(applicableColleges, processedCount, course) ==
    [status |-> "completed", progress |-> "Done",
     applicableColleges |-> applicableColleges, error |-> Null,
     totalProcessed |-> processedCount,
     articulatedCount |-> Len(applicableColleges),
     summary |-> "Found " \o ToString(Len(applicableColleges))
                 \o " colleges that articulate the course \"" \o course \o "\""]

\* lines 159-164
FailedJob(message) ==
    [status |-> "failed", progress |-> "Failed", applicableColleges |-> <<>>,
     error |-> <<message>>]

\* StartRecord with the write left to the first progress update: nothing is stored when
\* the task starts
StartRecordLater(js, jobId) == js

\* lines 55-60: the first statement of the task stores the record
StartRecord(js, jobId) == jobsSet(js, jobId, ProcessingJob)

\* line 267: job.createdAt && job.createdAt < oneHourAgo
Expired(job, oneHourAgo) ==
    /\ "createdAt" \in DOMAIN job
    /\ job.createdAt # 0
    /\ job.createdAt < oneHourAgo

(***************************************************************************)
(* processUniversityPDFs, lines 52-166, between its awaits.                *)
(***************************************************************************)
\* the value of an absent field (line 19); line 21 keeps it from reaching the task
Undefined == "undefined"

\* line 19: the destructuring of req.body
Field(body, f) == IF f \in DOMAIN body THEN body[f] ELSE Undefined

\* !v of line 21, for a field of the body
FalsyField(v) == v = Undefined \/ v = ""

\* Accepts without the test of course
AcceptsWithoutCourse(body) ==
    ~FalsyField(Field(body, "university")) /\ ~FalsyField(Field(body, "major"))

\* line 21
Accepts(body) ==
    /\ ~FalsyField(Field(body, "university"))
    /\ ~FalsyField(Field(body, "major"))
    /\ ~FalsyField(Field(body, "course"))

UpperLetters == "ABCDEFGHIJKLMNOPQRSTUVWXYZ"

LowerLetters == "abcdefghijklmnopqrstuvwxyz"

RECURSIVE ToLowerCase(_)
\* String.prototype.toLowerCase(), for the letters A-Z
ToLowerCase(s) ==
    IF s = "" THEN ""
    ELSE LET k == IndexOf(UpperLetters, Head(s))
         IN  (IF k = -1 THEN Head(s) ELSE CharAt(LowerLetters, k)) \o ToLowerCase(Tail(s))

\* NameMatches ignoring case
NameMatchesIgnoringCase(collegeName, university) ==
    ToLowerCase(collegeName) = ToLowerCase(university)

\* line 72
NameMatches(collegeName, university) == collegeName = university

RECURSIVE FirstInstitution(_, _, _)
\* lines 70-76: the position of the first entry whose first name is the university, 0 if none
FirstInstitution(institutions, university, k) ==
    IF k > Len(institutions) THEN 0
    ELSE IF NameMatches(institutions[k].names[1].name, university) THEN k
    ELSE FirstInstitution(institutions, university, k + 1)

\* lines 69-76
FindUniversityId(institutions, university) ==
    LET k == FirstInstitution(institutions, university, 1)
    IN  IF k = 0 THEN NullId ELSE institutions[k].id

\* line 79
NotFoundMessage(university) == "University \"" \o university \o "\" not found"

\* FailureMessage with a fixed text in place of the error's own
FailureMessageGeneric(resp) == "Processing failed"

\* line 163: error.message of what was thrown
FailureMessage(resp) == resp.message

\* line 92
CollegeIdsOf(agreementData) ==
    [k \in 1..Len(agreementData) |-> agreementData[k].institutionParentId]

\* line 107: majorData.reports || []
ReportsOf(majorData) == IF "reports" \in DOMAIN majorData THEN majorData.reports ELSE <<>>

\* FirstMajor taking the last report labelled with the major
LastMajor(reports, major, k) ==
    LET S == {i \in k..Len(reports) : reports[i].label = major}
    IN  IF S = {} THEN 0 ELSE CHOOSE i \in S : \A h \in S : h <= i

RECURSIVE FirstMajor(_, _, _)
\* lines 107-108: the position of the first report labelled with the major, 0 if none
FirstMajor(reports, major, k) ==
    IF k > Len(reports) THEN 0
    ELSE IF reports[k].label = major THEN k
    ELSE FirstMajor(reports, major, k + 1)

\* line 126
ShouldPush(courseCheck) == courseCheck.isArticulated /\ courseCheck.college # ""

\* Push as unshift: the college goes to the front
PushFront(applicableColleges, college) == <<college>> \o applicableColleges

\* line 127: applicableColleges.push(college)
Push(applicableColleges, college) == Append(applicableColleges, college)

\* line 140: processedCount++
Counted(processedCount) == processedCount + 1

InstitutionsRequest == [kind |-> "institutions", url |-> "https://assist.org/api/institutions"]

\* line 87
AgreementsRequest(universityId) ==
    [kind |-> "agreements",
     url |-> "https://assist.org/api/institutions/" \o ToString(universityId) \o "/agreements"]

\* line 102
MajorsRequest(universityId, collegeId) ==
    [kind |-> "majors",
     url |-> "https://assist.org/api/agreements?receivingInstitutionId="
             \o ToString(universityId) \o "&sendingInstitutionId=" \o ToString(collegeId)
             \o "&academicYearId=72&categoryCode=major"]

\* line 110
ArtifactRequest(key) ==
    [kind |-> "artifact", url |-> "https://assist.org/api/artifacts/" \o key]

\* The frame of a call: its parameters, its locals, and the await it is suspended at.
\* i is the 1-based position in collegeIds of the partner the loop is at.
NewFrame(university, major, course) ==
    [pc |-> "institutions", university |-> university, major |-> major, course |-> course,
     universityId |-> NullId, collegeIds |-> <<>>, i |-> 0, applicableColleges |-> <<>>,
     processedCount |-> 0, key |-> ""]

\* What a continuation leaves behind: the frame, the Map, the request it issued (if any)
\* and the partner outcome it closed (if any).
Outcome(frame, js, req, closed) == [frame |-> frame, jobs |-> js, req |-> req, closed |-> closed]

\* lines 157-165: the outer catch ends the task
Throw(j, f, js, message) ==
    Outcome([f EXCEPT !.pc = "done"], jobsSet(js, j, FailedJob(message)), <<>>, <<>>)

\* Complete without the write of lines 148-156: the task ends and the record stays
CompleteUnwritten(j, f, js) == Outcome([f EXCEPT !.pc = "done"], js, <<>>, <<>>)

\* lines 147-156: after the loop
Complete(j, f, js) ==
    Outcome([f EXCEPT !.pc = "done"],
            jobsSet(js, j, CompletedJob(f.applicableColleges, f.processedCount, f.course)),
            <<>>, <<>>)

\* LoopHead with the block of lines 147-156 moved into the loop body: the record is
\* written as completed on every iteration
LoopHeadWritesCompleted(j, f, js) ==
    IF f.i <= Len(f.collegeIds)
    THEN Outcome([f EXCEPT !.pc = "majors"],
                 jobsSet(js, j, CompletedJob(f.applicableColleges, f.processedCount, f.course)),
                 <<MajorsRequest(f.universityId, f.collegeIds[f.i])>>, <<>>)
    ELSE Complete(j, f, js)

\* LoopHead fanning out: the majors of the next partner are requested with this one's
LoopHeadFanOut(j, f, js) ==
    IF f.i < Len(f.collegeIds)
    THEN Outcome([f EXCEPT !.pc = "majors"], js,
                 <<MajorsRequest(f.universityId, f.collegeIds[f.i]),
                   MajorsRequest(f.universityId, f.collegeIds[f.i + 1])>>, <<>>)
    ELSE IF f.i = Len(f.collegeIds)
    THEN Outcome([f EXCEPT !.pc = "majors"], js,
                 <<MajorsRequest(f.universityId, f.collegeIds[f.i])>>, <<>>)
    ELSE Complete(j, f, js)

\* line 100: the loop takes the next collegeId and requests its majors (lines 102-103),
\* or is over
LoopHead(j, f, js) ==
    IF f.i <= Len(f.collegeIds)
    THEN Outcome([f EXCEPT !.pc = "majors"], js,
                 <<MajorsRequest(f.universityId, f.collegeIds[f.i])>>, <<>>)
    ELSE Complete(j, f, js)

\* EndPartner with the matches so far stored with the progress
EndPartnerPublishing(j, f, js, how) ==
    LET g == [f EXCEPT !.processedCount = Counted(@), !.i = @ + 1, !.key = ""]
        r == LoopHead(j, g,
                 updateJobProgress([js EXCEPT ![j].applicableColleges = g.applicableColleges],
                     j,
                     "Processed " \o ToString(g.processedCount) \o "/"
                     \o ToString(Len(g.collegeIds)) \o " colleges"))
    IN  [r EXCEPT !.closed = <<how>>]

\* lines 140-145, then the next iteration; how is the history entry of the partner
EndPartner(j, f, js, how) ==
    LET g == [f EXCEPT !.processedCount = Counted(@), !.i = @ + 1, !.key = ""]
        r == LoopHead(j, g,
                 updateJobProgress(js, j,
                     "Processed " \o ToString(g.processedCount) \o "/"
                     \o ToString(Len(g.collegeIds)) \o " colleges"))
    IN  [r EXCEPT !.closed = <<how>>]

\* PartnerError with the inner catch rethrowing
PartnerErrorFatal(j, f, js, how) == Throw(j, f, js, how.how)

\* PartnerError with processedCount++ and the progress update inside the try block:
\* a partner that throws is not counted
PartnerErrorUncounted(j, f, js, how) ==
    [LoopHead(j, [f EXCEPT !.i = @ + 1, !.key = ""], js) EXCEPT !.closed = <<how>>]

\* lines 135-138: the inner catch logs and goes on
PartnerError(j, f, js, how) == EndPartner(j, f, js, how)

\* a partner's history entry: how handling it ended and, if the extractor ran, its result
\* followed by the parser's answer it was computed from
Closed(pos, how, check) == [pos |-> pos, how |-> how, check |-> check]

\* lines 63-88: the institutions listing has settled
AfterInstitutions(j, f, js, resp) ==
    IF ~resp.ok THEN Throw(j, f, js, FailureMessage(resp))
    ELSE LET universityId == FindUniversityId(resp.data, f.university)
         IN  IF Falsy(universityId) THEN Throw(j, f, js, NotFoundMessage(f.university))
             ELSE Outcome([f EXCEPT !.pc = "agreements", !.universityId = universityId],
                          updateJobProgress(js, j, "Fetching agreements..."),
                          <<AgreementsRequest(universityId)>>, <<>>)

\* lines 86-103: the agreements listing has settled
AfterAgreements(j, f, js, resp) ==
    IF ~resp.ok THEN Throw(j, f, js, FailureMessage(resp))
    ELSE LET collegeIds == CollegeIdsOf(resp.data)
             g == [f EXCEPT !.collegeIds = collegeIds, !.i = 1,
                            !.applicableColleges = <<>>, !.processedCount = 0]
         IN  LoopHead(j, g,
                 updateJobProgress(js, j,
                     "Processing " \o ToString(Len(collegeIds)) \o " colleges..."))

\* lines 103-115: a majors listing has settled
AfterMajors(j, f, js, resp) ==
    IF ~resp.ok THEN PartnerError(j, f, js, Closed(f.i, "majorsError", <<>>))
    ELSE LET reports == ReportsOf(resp.data)
             m == FirstMajor(reports, f.major, 1)
         IN  IF m = 0 THEN EndPartner(j, f, js, Closed(f.i, "noMajor", <<>>))
             ELSE Outcome([f EXCEPT !.pc = "artifact", !.key = reports[m].key], js,
                          <<ArtifactRequest(reports[m].key)>>, <<>>)

\* lines 113-124: a document download has settled
AfterArtifact(j, f, js, resp) ==
    IF ~resp.ok THEN PartnerError(j, f, js, Closed(f.i, "downloadError", <<>>))
    ELSE IF resp.status # 200 THEN EndPartner(j, f, js, Closed(f.i, "non200", <<>>))
    ELSE Outcome([f EXCEPT !.pc = "parse"], js, <<>>, <<>>)

\* line 172, lines 175-247 and lines 126-145: the parser has settled; the result of
\* checkCourseArticulation is read from Extractions when it is computed there
AfterParse(j, f, js, parsed) ==
    LET courseCheck == IF <<parsed, f.course>> \in DOMAIN Extractions
                       THEN [Extractions[parsed, f.course] EXCEPT !.key = f.key]
                       ELSE checkCourseArticulation(parsed, f.course, f.key)
        g == IF ShouldPush(courseCheck)
             THEN [f EXCEPT !.applicableColleges = Push(@, courseCheck.college)]
             ELSE f
    IN  EndPartner(j, g, js, Closed(f.i, "checked", <<courseCheck, parsed>>))


(***************************************************************************)
(* The actions: one per handler, callback or continuation.                 *)
(***************************************************************************)
JobIds == 1..MaxJobs

\* the ids a client may ask for: 0 is never a job's id
PolledIds == JobIds \cup {0}

RECURSIVE IssuedIn(_, _)
\* the upstream requests issued so far by the tasks of the ids in S
IssuedIn(rq, S) ==
    IF S = {} THEN 0
    ELSE LET j == CHOOSE k \in S : TRUE IN Len(rq[j]) + IssuedIn(rq, S \ {j})

Issued(rq) == IssuedIn(rq, DOMAIN rq)

\* extend a per-job map by a new job
With(m, j, v) == [k \in DOMAIN m \cup {j} |-> IF k = j THEN v ELSE m[k]]

Init ==
    /\ jobs = <<>>
    /\ task = <<>>
    /\ nextId = 1
    /\ now = 0
    /\ http = [req |-> [method |-> "NONE"], res |-> [status |-> 0]]
    /\ reqs = <<>>
    /\ resps = <<>>
    /\ checks = <<>>
    /\ created = <<>>

\* lines 17-37, with lines 52-63 of the task it starts: POST /api/process-pdfs
Submit(body) ==
    IF ~Accepts(body)
    THEN /\ http' = [req |-> [method |-> "POST", body |-> body],
                     res |-> [status |-> 400,
                              body |-> [error |-> "University, major, and course are required"]]]
         /\ UNCHANGED <<jobs, task, nextId, now, reqs, resps, checks, created>>
    ELSE /\ nextId <= MaxJobs
         /\ Issued(reqs) < MaxUpstream
         /\ LET jobId == nextId
            IN  /\ nextId' = nextId + 1
                /\ jobs' = StartRecord(jobs, jobId)
                /\ task' = With(task, jobId, NewFrame(Field(body, "university"), Field(body, "major"),
                                                   Field(body, "course")))
                /\ reqs' = With(reqs, jobId, <<InstitutionsRequest>>)
                /\ resps' = With(resps, jobId, <<>>)
                /\ checks' = With(checks, jobId, <<>>)
                /\ created' = With(created, jobId, now)
                /\ http' = [req |-> [method |-> "POST", body |-> body],
                            res |-> [status |-> 200,
                                     body |-> [jobId |-> jobId, status |-> "processing",
                                               message |-> "PDF processing started"]]]
         /\ UNCHANGED now

\* lines 40-49: GET /api/jobs/:jobId
Poll(jobId) ==
    /\ http' = [req |-> [method |-> "GET", jobId |-> jobId],
                res |-> IF jobId \in DOMAIN jobs
                        THEN [status |-> 200, body |-> jobs[jobId]]
                        ELSE [status |-> 404, body |-> [error |-> "Job not found"]]]
    /\ UNCHANGED <<jobs, task, nextId, now, reqs, resps, checks, created>>

\* a continuation of job j's task has run and left r behind; settled is the upstream
\* response that resumed it (none when the parser did)
Resume(j, r, settled) ==
    /\ task' = [task EXCEPT ![j] = r.frame]
    /\ jobs' = r.jobs
    /\ reqs' = [reqs EXCEPT ![j] = @ \o r.req]
    /\ resps' = [resps EXCEPT ![j] = @ \o settled]
    /\ checks' = [checks EXCEPT ![j] = @ \o r.closed]
    /\ Issued(reqs') <= MaxUpstream
    /\ UNCHANGED <<nextId, now, http, created>>

InstitutionsSettled(j, resp) ==
    /\ j \in DOMAIN task
    /\ task[j].pc = "institutions"
    /\ Resume(j, AfterInstitutions(j, task[j], jobs, resp), <<resp>>)

AgreementsSettled(j, resp) ==
    /\ j \in DOMAIN task
    /\ task[j].pc = "agreements"
    /\ Resume(j, AfterAgreements(j, task[j], jobs, resp), <<resp>>)

MajorsSettled(j, resp) ==
    /\ j \in DOMAIN task
    /\ task[j].pc = "majors"
    /\ Resume(j, AfterMajors(j, task[j], jobs, resp), <<resp>>)

ArtifactSettled(j, resp) ==
    /\ j \in DOMAIN task
    /\ task[j].pc = "artifact"
    /\ Resume(j, AfterArtifact(j, task[j], jobs, resp), <<resp>>)

ParseSettled(j, parsed) ==
    /\ j \in DOMAIN task
    /\ task[j].pc = "parse"
    /\ Resume(j, AfterParse(j, task[j], jobs, parsed), <<>>)

\* lines 264-271: the hourly timer
Sweep ==
    /\ now < MaxSweeps * HourMs
    /\ now' = now + HourMs
    /\ LET oneHourAgo == now' - HourMs
       IN  jobs' = [k \in {x \in DOMAIN jobs : ~Expired(jobs[x], oneHourAgo)} |-> jobs[k]]
    /\ UNCHANGED <<task, nextId, http, reqs, resps, checks, created>>

Next ==
    \/ \E body \in Bodies : Submit(body)
    \/ \E jobId \in PolledIds : Poll(jobId)
    \/ \E j \in JobIds, resp \in InstitutionsResponses : InstitutionsSettled(j, resp)
    \/ \E j \in JobIds, resp \in AgreementsResponses : AgreementsSettled(j, resp)
    \/ \E j \in JobIds, resp \in MajorsResponses : MajorsSettled(j, resp)
    \/ \E j \in JobIds, resp \in ArtifactResponses : ArtifactSettled(j, resp)
    \/ \E j \in JobIds, parsed \in ParseResults : ParseSettled(j, parsed)
    \/ Sweep

Spec == Init /\ [][Next]_vars


(***************************************************************************)
(* The extractor on its own: one task suspended at line 172, for a course  *)
(* drawn from ExtractorCourses, resumed by the parser with a document      *)
(* drawn from ExtractorTexts.  The history entry of the partner keeps the  *)
(* extractor's result and the parser's answer.                             *)
(***************************************************************************)
\* lines 52-120: job 1, asked for the course, has resolved UCLA, listed one partner,
\* found the major's key and downloaded its document; the parser has not settled
ExtractInit ==
    \E course \in ExtractorCourses :
        LET body == [university |-> "UCLA", major |-> "CS", course |-> course]
            r1 == Fulfilled(200, <<[id |-> 1, names |-> <<[name |-> "UCLA"]>>]>>)
            r2 == Fulfilled(200, <<[institutionParentId |-> 5]>>)
            r3 == Fulfilled(200, [reports |-> <<[label |-> "CS", key |-> "k1"]>>])
            r4 == Fulfilled(200, "%PDF")
            o1 == AfterInstitutions(1, NewFrame("UCLA", "CS", course), StartRecord(<<>>, 1), r1)
            o2 == AfterAgreements(1, o1.frame, o1.jobs, r2)
            o3 == AfterMajors(1, o2.frame, o2.jobs, r3)
            o4 == AfterArtifact(1, o3.frame, o3.jobs, r4)
        IN  /\ jobs = o4.jobs
            /\ task = With(<<>>, 1, o4.frame)
            /\ nextId = 2
            /\ now = 0
            /\ http = [req |-> [method |-> "POST", body |-> body],
                       res |-> [status |-> 200,
                                body |-> [jobId |-> 1, status |-> "processing",
                                          message |-> "PDF processing started"]]]
            /\ reqs = With(<<>>, 1, <<InstitutionsRequest>> \o o1.req \o o2.req \o o3.req \o o4.req)
            /\ resps = With(<<>>, 1, <<r1, r2, r3, r4>>)
            /\ checks = With(<<>>, 1, <<>>)
            /\ created = With(<<>>, 1, 0)

ExtractNext == \E parsed \in ExtractorParseResults : ParseSettled(1, parsed)

ExtractSpec == ExtractInit /\ [][ExtractNext]_vars


(***************************************************************************)
(* The server with every promise settling.  MaxUpstream bounds Spec by     *)
(* cutting a run short where the next request would exceed it, which       *)
(* leaves a task suspended for good.  Here the bound is kept by admission: *)
(* a request is accepted, an institution resolved and a listing of n       *)
(* partners returned only while the requests this can lead to (one for the *)
(* agreements, two per partner) still fit; otherwise the upstream answers  *)
(* with a failure.  A suspended task can then always be resumed, and weak  *)
(* fairness of its continuations says that what it awaits settles.  The    *)
(* jobs run within the hour: the timer, whose callback changes nothing but *)
(* the clock of the model, does not fire.                                  *)
(***************************************************************************)
\* lines 100-115: the requests a task in its loop may still issue, one for the majors
\* and one for the document of every partner not yet handled
Reserved(f) ==
    IF f.pc = "majors" THEN 1 + 2 * (Len(f.collegeIds) - f.i)
    ELSE IF f.pc \in {"artifact", "parse"} THEN 2 * (Len(f.collegeIds) - f.i)
    ELSE 0

RECURSIVE ReservedIn(_, _)
ReservedIn(t, S) ==
    IF S = {} THEN 0
    ELSE LET j == CHOOSE k \in S : TRUE IN Reserved(t[j]) + ReservedIn(t, S \ {j})

\* extra further requests fit beside those issued and those reserved
Fits(extra) == Issued(reqs) + ReservedIn(task, DOMAIN task) + extra <= MaxUpstream

LiveSubmit(body) ==
    /\ Accepts(body) => Fits(1)
    /\ Submit(body)

LiveInstitutionsSettled(j, resp) ==
    /\ resp.ok => Fits(1)
    /\ InstitutionsSettled(j, resp)

LiveAgreementsSettled(j, resp) ==
    /\ resp.ok => Fits(2 * Len(resp.data))
    /\ AgreementsSettled(j, resp)

\* what job j's task awaits settles and the task runs to its next await
LiveSettle(j) ==
    \/ \E resp \in InstitutionsResponses : LiveInstitutionsSettled(j, resp)
    \/ \E resp \in AgreementsResponses : LiveAgreementsSettled(j, resp)
    \/ \E resp \in MajorsResponses : MajorsSettled(j, resp)
    \/ \E resp \in ArtifactResponses : ArtifactSettled(j, resp)
    \/ \E parsed \in ParseResults : ParseSettled(j, parsed)

LiveNext ==
    \/ \E body \in Bodies : LiveSubmit(body)
    \/ \E jobId \in PolledIds : Poll(jobId)
    \/ \E j \in JobIds : LiveSettle(j)

LiveSpec == Init /\ [][LiveNext]_vars /\ \A j \in JobIds : WF_vars(LiveSettle(j))


(***************************************************************************)
(* Properties.                                                             *)
(***************************************************************************)
Terminal(job) == job.status \in {"completed", "failed"}

\* C1: a job's status only moves from processing to completed or from processing to
\* failed, and once it is completed or failed no step (a continuation of any task, a
\* progress update, a poll, a sweep) changes or removes the job's record.
C1_TerminalIsFinal ==
    [][\A j \in DOMAIN jobs :
          /\ Terminal(jobs[j]) => j \in DOMAIN jobs' /\ jobs'[j] = jobs[j]
          /\ (j \in DOMAIN jobs' /\ jobs'[j].status # jobs[j].status)
                => jobs[j].status = "processing" /\ Terminal(jobs'[j])]_vars

\* a failed job and a completed job, the completed one polled after a sweep ran
C1_Witness ==
    /\ \E j \in DOMAIN jobs : jobs[j].status = "failed"
    /\ \E j \in DOMAIN jobs :
          /\ jobs[j].status = "completed"
          /\ jobs[j].totalProcessed > 0
          /\ http.req = [method |-> "GET", jobId |-> j]
          /\ http.res.body = jobs[j]
    /\ now > 0

\* the ids submit responses have carried
Returned == 1..(nextId - 1)

\* C2: when the submit handler answers with a jobId, the Job Store already holds that
\* job's record with status processing; so every id a submit response carried has a
\* record, and a poll for such an id is never answered 404, wherever the poll falls
\* between the steps of the background task.
C2_SubmittedJobIsStored ==
    /\ [][nextId' # nextId =>
            /\ http'.req.method = "POST"
            /\ http'.res.status = 200
            /\ http'.res.body.jobId = nextId
            /\ nextId \in DOMAIN jobs'
            /\ jobs'[nextId].status = "processing"]_vars
    /\ [](/\ Returned \subseteq DOMAIN jobs
          /\ (http.req.method = "GET" /\ http.req.jobId \in Returned)
                => http.res.status = 200)

\* a poll answered with the record while the task is in its partner loop, and one
\* answered after the task has ended
C2_Witness ==
    /\ \E j \in Returned :
          /\ task[j].pc \in {"majors", "artifact", "parse"}
          /\ http.req = [method |-> "GET", jobId |-> j]
          /\ http.res.status = 200
          /\ http.res.body = jobs[j]
    /\ \E j \in Returned : task[j].pc = "done"

\* a field the handler of line 21 finds falsy
Missing(body, f) == f \notin DOMAIN body \/ body[f] = ""

AnyMissing(body) == \E f \in {"university", "major", "course"} : Missing(body, f)

\* C3: a submit in which university, major or course is missing is answered 400, and
\* the step that answers it generates no job id, stores no record, starts no task and
\* issues no upstream request.
C3_MissingFieldRejected ==
    /\ []((http.req.method = "POST" /\ AnyMissing(http.req.body)) => http.res.status = 400)
    /\ [][(http' # http /\ http'.req.method = "POST" /\ AnyMissing(http'.req.body))
            => UNCHANGED <<jobs, task, nextId, reqs, resps, checks, created>>]_vars

\* a request without course rejected while a job is running
C3_Witness ==
    /\ http.req.method = "POST"
    /\ "course" \notin DOMAIN http.req.body
    /\ http.res.status = 400
    /\ \E j \in DOMAIN jobs : jobs[j].status = "processing" /\ task[j].pc = "agreements"

\* no entry of the listing has the university as its first name
NoFirstName(institutions, university) ==
    \A k \in 1..Len(institutions) : institutions[k].names[1].name # university

\* C4: institutions are resolved by exact, case-sensitive equality with the first name
\* of each entry: when the listing arrives and no entry's first name equals the
\* requested name, the job ends failed with an error that contains the requested name
\* and with no matches, and its task issues no agreements, majors or document request.
C4_UnknownInstitutionFails ==
    \A j \in DOMAIN task :
        (/\ Len(resps[j]) >= 1
         /\ resps[j][1].ok
         /\ NoFirstName(resps[j][1].data, task[j].university))
        => /\ task[j].pc = "done"
           /\ jobs[j].status = "failed"
           /\ Len(jobs[j].error) = 1
           /\ Includes(jobs[j].error[1], task[j].university)
           /\ jobs[j].applicableColleges = <<>>
           /\ reqs[j] = <<InstitutionsRequest>>

\* "ucla" requested, the listing holds "UCLA" (and "ucla" as a second name): failed
C4_Witness ==
    \E j \in DOMAIN task :
        /\ task[j].university = "ucla"
        /\ Len(resps[j]) = 1
        /\ resps[j][1].ok
        /\ \E k \in 1..Len(resps[j][1].data) : resps[j][1].data[k].names[1].name = "UCLA"
        /\ \E k \in 1..Len(resps[j][1].data) :
              /\ Len(resps[j][1].data[k].names) > 1
              /\ resps[j][1].data[k].names[2].name = "ucla"
        /\ jobs[j].status = "failed"
        /\ jobs[j].error = <<"University \"ucla\" not found">>

\* C5: when the institutions request or the agreements request fails, the job ends
\* failed with the failure's message as error and no matches, and the task stops: no
\* partner is handled and no further upstream request is issued.
C5_ListingFailureIsFatal ==
    \A j \in DOMAIN task :
        \A k \in 1..Len(resps[j]) :
            (reqs[j][k].kind \in {"institutions", "agreements"} /\ ~resps[j][k].ok)
            => /\ task[j].pc = "done"
               /\ jobs[j].status = "failed"
               /\ jobs[j].error = <<resps[j][k].message>>
               /\ jobs[j].applicableColleges = <<>>
               /\ Len(reqs[j]) = k
               /\ checks[j] = <<>>

\* a job whose agreements request failed, beside one whose institutions request failed
C5_Witness ==
    /\ \E j \in DOMAIN task :
          /\ Len(resps[j]) = 2
          /\ reqs[j][2].kind = "agreements"
          /\ ~resps[j][2].ok
          /\ jobs[j].status = "failed"
    /\ \E j \in DOMAIN task :
          /\ Len(resps[j]) = 1
          /\ ~resps[j][1].ok
          /\ jobs[j].status = "failed"

\* the ways handling a partner fails: the majors request fails, no report has the
\* major, the download fails or is not answered 200, the extractor's parse throws
PartnerFailed(e) ==
    \/ e.how \in {"majorsError", "noMajor", "downloadError", "non200"}
    \/ e.how = "checked" /\ "error" \in DOMAIN e.check[1]

\* the task has entered the partner loop: it has issued a majors request
LoopBegun(j) == \E k \in 1..Len(reqs[j]) : reqs[j][k].kind = "majors"

\* C6: once the partner loop has begun the job is never failed: it is processing until
\* the task ends and completed after; and a step in which handling a partner fails adds
\* no match, and goes on to request the next partner's majors with the job still
\* processing, or after the last partner completes the job.
C6_PartnerFailureIsolated ==
    /\ [](\A j \in DOMAIN task :
            LoopBegun(j) =>
                jobs[j].status = IF task[j].pc = "done" THEN "completed" ELSE "processing")
    /\ [][\A j \in DOMAIN task :
            (Len(checks'[j]) = Len(checks[j]) + 1 /\ PartnerFailed(checks'[j][Len(checks'[j])]))
            => /\ task'[j].applicableColleges = task[j].applicableColleges
               /\ IF task[j].i < Len(task[j].collegeIds)
                  THEN /\ task'[j].pc = "majors"
                       /\ jobs'[j].status = "processing"
                       /\ reqs'[j] = Append(reqs[j],
                              MajorsRequest(task[j].universityId,
                                            task[j].collegeIds[task[j].i + 1]))
                  ELSE /\ task'[j].pc = "done"
                       /\ jobs'[j].status = "completed"]_vars

\* a completed job whose first partner's download failed and whose second matched
C6_Witness ==
    \E j \in DOMAIN task :
        /\ jobs[j].status = "completed"
        /\ Len(checks[j]) = 2
        /\ checks[j][1].how = "downloadError"
        /\ checks[j][2].how = "checked"
        /\ jobs[j].applicableColleges = <<"SMC">>

\* C7: in a completed job totalProcessed is the number of entries of the agreements
\* listing as it was returned, duplicates included, however the partners fared.
C7_TotalProcessedCountsPartners ==
    \A j \in DOMAIN jobs :
        jobs[j].status = "completed"
        => /\ Len(resps[j]) >= 2
           /\ reqs[j][2].kind = "agreements"
           /\ resps[j][2].ok
           /\ jobs[j].totalProcessed = Len(resps[j][2].data)

\* the same partner listed twice: its first handling failed, its second found no major
C7_Witness ==
    \E j \in DOMAIN jobs :
        /\ jobs[j].status = "completed"
        /\ jobs[j].totalProcessed = 2
        /\ resps[j][2].data[1] = resps[j][2].data[2]
        /\ checks[j][1].how = "majorsError"
        /\ checks[j][2].how = "noMajor"

\* the partner's document was fetched and the extractor reported articulated
Articulated(e) == e.how = "checked" /\ e.check[1].isArticulated

\* C8: every partner whose document is fetched and which the extractor reports
\* articulated gets a match, so a completed job has exactly one match for each such
\* partner occurrence.
C8_EveryArticulatedPartnerMatched ==
    \A j \in DOMAIN jobs :
        jobs[j].status = "completed"
        => Len(jobs[j].applicableColleges)
             = Cardinality({k \in 1..Len(checks[j]) : Articulated(checks[j][k])})

\* the partner's handling produced a match: its college name went into the list
Produced(e) == Articulated(e) /\ e.check[1].college # ""

RECURSIVE MatchesOf(_)
\* the colleges of the partners that produced a match, in the order of the partners
MatchesOf(cs) ==
    IF cs = <<>> THEN <<>>
    ELSE (IF Produced(Head(cs)) THEN <<Head(cs).check[1].college>> ELSE <<>>)
         \o MatchesOf(Tail(cs))

\* C9: partners are handled in the order of the agreements listing, and the matches of
\* a job, while it is collected and once it is completed, are the colleges of the
\* partners that produced one in that order: the match of position i precedes the
\* match of position j > i, whenever the responses arrive.
C9_MatchesInPartnerOrder ==
    \A j \in DOMAIN task :
        /\ \A k \in 1..Len(checks[j]) : checks[j][k].pos = k
        /\ task[j].applicableColleges = MatchesOf(checks[j])
        /\ jobs[j].status = "completed" => jobs[j].applicableColleges = MatchesOf(checks[j])

\* partners 6 and 5 matched, in that order, with different colleges
C9_Witness ==
    \E j \in DOMAIN task :
        /\ jobs[j].status = "completed"
        /\ jobs[j].applicableColleges = <<"ELAC", "SMC">>
        /\ resps[j][2].data = <<[institutionParentId |-> 6], [institutionParentId |-> 5]>>

\* what C10 says of a record
CompletedShape(job) ==
    /\ job.progress = "Done"
    /\ job.error = Null
    /\ "summary" \in DOMAIN job
    /\ job.articulatedCount = Len(job.applicableColleges)

\* C10: a record with status completed has progress "Done", error null, a summary and
\* articulatedCount equal to the length of its matches; the fields are written with
\* the status, so a poll never returns a completed record without them.
C10_CompletedRecordShape ==
    /\ \A j \in DOMAIN jobs : jobs[j].status = "completed" => CompletedShape(jobs[j])
    /\ (http.req.method = "GET" /\ http.res.status = 200 /\ http.res.body.status = "completed")
          => CompletedShape(http.res.body)

\* a poll that returned a completed record with one match out of two partners
C10_Witness ==
    /\ http.req.method = "GET"
    /\ http.res.status = 200
    /\ http.res.body.status = "completed"
    /\ http.res.body.totalProcessed = 2
    /\ http.res.body.articulatedCount = 1
    /\ http.res.body.summary = "Found 1 colleges that articulate the course \"CS 101\""

(***************************************************************************)
(* Properties of the extractor.  They speak of positions in the text, not  *)
(* of the steps of checkCourseArticulation.                                *)
(***************************************************************************)
\* t occurs in s at the 0-based position p
OccursAt(s, t, p) == p >= 0 /\ p + Len(t) <= Len(s) /\ SubSeq(s, p + 1, p + Len(t)) = t

\* the first position at or after from where t occurs in s, -1 if there is none
FirstAt(s, t, from) ==
    LET P == {p \in from..Len(s) : OccursAt(s, t, p)}
    IN  IF P = {} THEN -1 ELSE CHOOSE p \in P : \A q \in P : p <= q

\* the extractor ran on the text of a parsed document
Ran(e) == e.how = "checked" /\ e.check[2].ok

\* the normalized document text and the normalized course code of a run
TextOf(e) == StripControl(e.check[2].text)

CodeOf(j) == StripControl(task[j].course)

\* the first marker after the end of the first occurrence of the course code, -1 if the
\* code does not occur or no marker follows it
MarkerAt(text, code) ==
    LET c == FirstAt(text, code, 0)
    IN  IF c = -1 THEN -1 ELSE FirstAt(text, Arrow, c + Len(code))

\* C11: when the normalized course code does not occur in the normalized text, or it
\* occurs but no marker occurs after the end of its first occurrence, the result is
\* not articulated, its articulated text is null and it carries no error.
C11_NoCourseOrNoMarker ==
    \A j \in DOMAIN checks :
        \A k \in 1..Len(checks[j]) :
            (Ran(checks[j][k]) /\ MarkerAt(TextOf(checks[j][k]), CodeOf(j)) = -1)
            => /\ ~checks[j][k].check[1].isArticulated
               /\ checks[j][k].check[1].articulatedCourse = Null
               /\ "error" \notin DOMAIN checks[j][k].check[1]

\* the course occurs and the only marker of the text stands before it
C11_Witness ==
    \E j \in DOMAIN checks :
        \E k \in 1..Len(checks[j]) :
            /\ Ran(checks[j][k])
            /\ CodeOf(j) = "CS 101"
            /\ FirstAt(TextOf(checks[j][k]), CodeOf(j), 0) > 0
            /\ MarkerAt(TextOf(checks[j][k]), CodeOf(j)) = -1
            /\ FirstAt(TextOf(checks[j][k]), Arrow, 0) # -1
            /\ ~checks[j][k].check[1].isArticulated

\* the window of a text: at most 30 characters from the marker at position m
WindowAt(text, m) == SubSeq(text, m + 1, Min(m + 30, Len(text)))

\* the window wholly contains one of the three phrases
Negative(window) ==
    \E phrase \in {"No Course Articulated", "No Comparable Course", "Course(s) Denied"} :
        FirstAt(window, phrase, 0) # -1

\* C12: when the course code is found and a marker follows it, the window of at most 30
\* characters from the first such marker decides: if it wholly contains one of the
\* three phrases the result is not articulated (and its articulated text null),
\* otherwise it is articulated and its articulated text is the window trimmed.
C12_WindowDecides ==
    \A j \in DOMAIN checks :
        \A k \in 1..Len(checks[j]) :
            (Ran(checks[j][k]) /\ MarkerAt(TextOf(checks[j][k]), CodeOf(j)) # -1)
            => LET window == WindowAt(TextOf(checks[j][k]),
                                      MarkerAt(TextOf(checks[j][k]), CodeOf(j)))
               IN  /\ checks[j][k].check[1].isArticulated = ~Negative(window)
                   /\ checks[j][k].check[1].articulatedCourse
                        = IF Negative(window) THEN Null ELSE <<Trim(window)>>

\* a phrase begins inside the window and ends past it: articulated, the window is 30 long
C12_Witness ==
    \E j \in DOMAIN checks :
        \E k \in 1..Len(checks[j]) :
            /\ Ran(checks[j][k])
            /\ MarkerAt(TextOf(checks[j][k]), CodeOf(j)) # -1
            /\ LET m == MarkerAt(TextOf(checks[j][k]), CodeOf(j))
               IN  /\ Len(WindowAt(TextOf(checks[j][k]), m)) = 30
                   /\ FirstAt(TextOf(checks[j][k]), "No Course Articulated", m) = m + 10
            /\ checks[j][k].check[1].isArticulated
            /\ checks[j][k].check[1].articulatedCourse = <<"~>        No Course Articulate">>

\* C13: the institution name is empty when "From:" is absent from the normalized text or
\* no '2' occurs from 6 characters after the start of the first "From:" on; otherwise
\* it is the text from that point up to the first '2', less the one character before
\* that '2', trimmed.
C13_InstitutionName ==
    \A j \in DOMAIN checks :
        \A k \in 1..Len(checks[j]) :
            Ran(checks[j][k])
            => LET text == TextOf(checks[j][k])
                   f == FirstAt(text, "From:", 0)
                   y == IF f = -1 THEN -1 ELSE FirstAt(text, "2", f + 6)
               IN  checks[j][k].check[1].college
                     = IF y = -1 THEN "" ELSE Trim(SubSeq(text, f + 7, y - 1))

\* "From: Santa Monica College 2021-2022" yields "Santa Monica College"
C13_Witness ==
    \E j \in DOMAIN checks :
        \E k \in 1..Len(checks[j]) :
            /\ Ran(checks[j][k])
            /\ FirstAt(TextOf(checks[j][k]), "From: Santa Monica College 2021-2022", 0) = 0
            /\ checks[j][k].check[1].college = "Santa Monica College"

(***************************************************************************)
(* Properties of the sweep and of the partner loop.                        *)
(***************************************************************************)
\* C14: after a sweep has run, no job created more than the retention window (one
\* hour) earlier remains in the Job Store.  The clock advances only when the timer
\* fires, so every state in which now > 0 is the state a sweep has left or a later one.
C14_SweepRemovesExpired ==
    \A j \in DOMAIN jobs : now > 0 => now - created[j] <= HourMs

\* C15: a job has at most one upstream request outstanding, and the step that requests
\* the majors of the partner at position p > 1 finds the partners before it counted:
\* processedCount and the number of partners handled are p - 1, and the request is for
\* the p-th id of the listing.
C15_PartnersSequential ==
    /\ [](\A j \in DOMAIN task :
            /\ Len(reqs[j]) - Len(resps[j]) \in {0, 1}
            /\ Len(reqs[j]) - Len(resps[j]) = 1
                  <=> task[j].pc \in {"institutions", "agreements", "majors", "artifact"})
    /\ [][\A j \in DOMAIN task :
            (/\ Len(reqs'[j]) > Len(reqs[j])
             /\ reqs'[j][Len(reqs'[j])].kind = "majors")
            => /\ Len(reqs'[j]) = Len(reqs[j]) + 1
               /\ task'[j].processedCount = task'[j].i - 1
               /\ Len(checks'[j]) = task'[j].i - 1
               /\ task'[j].i \in 1..Len(resps'[j][2].data)
               /\ reqs'[j][Len(reqs'[j])]
                    = MajorsRequest(task'[j].universityId,
                                    resps'[j][2].data[task'[j].i].institutionParentId)]_vars

\* the majors of the second partner are awaited, the first had its document extracted
C15_Witness ==
    \E j \in DOMAIN task :
        /\ task[j].pc = "majors"
        /\ task[j].i = 2
        /\ task[j].processedCount = 1
        /\ checks[j][1].how = "checked"
        /\ Len(reqs[j]) = Len(resps[j]) + 1
        /\ jobs[j].progress = "Processed 1/2 colleges"

\* C16: a document request follows a majors listing that was returned, and is for the
\* key of the first record of that listing whose label equals the requested major; the
\* request after it, if any, is the next partner's majors request, so one partner
\* occurrence has at most one document requested, however that request fared.
C16_FirstMajorRecordOnly ==
    \A j \in DOMAIN task :
        \A k \in 1..Len(reqs[j]) :
            reqs[j][k].kind = "artifact"
            => /\ reqs[j][k - 1].kind = "majors"
               /\ resps[j][k - 1].ok
               /\ "reports" \in DOMAIN resps[j][k - 1].data
               /\ \E m \in 1..Len(resps[j][k - 1].data.reports) :
                     /\ resps[j][k - 1].data.reports[m].label = task[j].major
                     /\ \A h \in 1..(m - 1) :
                           resps[j][k - 1].data.reports[h].label # task[j].major
                     /\ reqs[j][k].url
                          = "https://assist.org/api/artifacts/"
                            \o resps[j][k - 1].data.reports[m].key
               /\ k < Len(reqs[j]) => reqs[j][k + 1].kind = "majors"

\* two records are labelled with the major; the download of the first failed, the job
\* went on to the next partner and ended without a request for the second
C16_Witness ==
    \E j \in DOMAIN task :
        /\ task[j].pc = "done"
        /\ Len(checks[j]) = 2
        /\ checks[j][1].how = "downloadError"
        /\ reqs[j][4] = ArtifactRequest("k1")
        /\ Len(ReportsOf(resps[j][3].data)) = 3
        /\ resps[j][3].data.reports[3] = [label |-> "CS", key |-> "k2"]
        /\ \A k \in 1..Len(reqs[j]) : reqs[j][k] # ArtifactRequest("k2")

\* C17: every started job eventually has a terminal status, completed or failed, when
\* every upstream request and every parse issued for it settles.
C17_EveryJobEnds ==
    \A j \in JobIds : (j \in DOMAIN jobs) ~> (j \in DOMAIN jobs /\ Terminal(jobs[j]))

\* a job that went through its loop has completed and another job has ended
C17_Witness ==
    \E j \in DOMAIN jobs :
        /\ jobs[j].status = "completed"
        /\ jobs[j].totalProcessed >= 1
        /\ task[j].pc = "done"
        /\ \E k \in DOMAIN jobs \ {j} : Terminal(jobs[k]) /\ Len(reqs[k]) >= 2

(***************************************************************************)
(* Properties of jobs running side by side.                                *)
(***************************************************************************)
RECURSIVE ParsesOf(_)
\* the parser's answers a task has consumed, in order
ParsesOf(cs) ==
    IF cs = <<>> THEN <<>>
    ELSE (IF Head(cs).how = "checked" THEN <<Head(cs).check[2]>> ELSE <<>>)
         \o ParsesOf(Tail(cs))

RECURSIVE SoloRun(_, _, _, _, _)
\* the task of job j run from frame f and store js through the upstream responses rs
\* and the parser's answers ps, as far as they go
SoloRun(j, f, js, rs, ps) ==
    IF f.pc = "done" THEN [frame |-> f, jobs |-> js]
    ELSE IF f.pc = "parse"
    THEN IF ps = <<>> THEN [frame |-> f, jobs |-> js]
         ELSE LET o == AfterParse(j, f, js, Head(ps))
              IN  SoloRun(j, o.frame, o.jobs, rs, Tail(ps))
    ELSE IF rs = <<>> THEN [frame |-> f, jobs |-> js]
    ELSE LET o == CASE f.pc = "institutions" -> AfterInstitutions(j, f, js, Head(rs))
                    [] f.pc = "agreements" -> AfterAgreements(j, f, js, Head(rs))
                    [] f.pc = "majors" -> AfterMajors(j, f, js, Head(rs))
                    [] f.pc = "artifact" -> AfterArtifact(j, f, js, Head(rs))
         IN  SoloRun(j, o.frame, o.jobs, Tail(rs), ps)

\* job j's task run alone, in a store of its own, on job j's request and the answers
\* job j's task has received
Alone(j) ==
    SoloRun(j, NewFrame(task[j].university, task[j].major, task[j].course),
            StartRecord(<<>>, j), resps[j], ParsesOf(checks[j]))

\* C18: with jobs interleaved at their awaits, a step that changes the record of job j
\* is a step of j's task and of no other task, and a poll changes no record; so the
\* record of a job, and the frame of its task, are in every state what its task run
\* alone would have made of the job's own request and the answers it has received.
C18_JobsAreIndependent ==
    /\ [](\A j \in DOMAIN task :
            LET alone == Alone(j) IN jobs[j] = alone.jobs[j] /\ task[j] = alone.frame)
    /\ [][\A j \in DOMAIN jobs :
            (j \in DOMAIN jobs' /\ jobs'[j] # jobs[j])
            => /\ task'[j] # task[j]
               /\ \A k \in DOMAIN task \ {j} : task'[k] = task[k] /\ jobs'[k] = jobs[k]]_vars
    /\ [][(http' # http /\ http'.req.method = "GET") => jobs' = jobs]_vars

\* one job is in its loop with a partner handled, another has failed after it started,
\* and a poll has just returned the first one's record
C18_Witness ==
    \E j \in DOMAIN task :
        /\ task[j].pc = "majors"
        /\ jobs[j].progress = "Processed 1/2 colleges"
        /\ http.req = [method |-> "GET", jobId |-> j]
        /\ http.res.body = jobs[j]
        /\ \E k \in DOMAIN task :
              /\ k > j
              /\ jobs[k].status = "failed"
              /\ Len(resps[k]) = 2

\* C19: a record with status processing or failed has no matches, in the store and in
\* what a poll returned: the matches the loop has found are in the task's frame until
\* the write that sets the status to completed.
C19_MatchesHeldUntilCompleted ==
    /\ \A j \in DOMAIN jobs :
          jobs[j].status \in {"processing", "failed"} => jobs[j].applicableColleges = <<>>
    /\ (/\ http.req.method = "GET"
        /\ http.res.status = 200
        /\ http.res.body.status \in {"processing", "failed"})
       => http.res.body.applicableColleges = <<>>

\* the task holds a match, the job is processing and a poll has just returned its
\* record without it
C19_Witness ==
    \E j \in DOMAIN task :
        /\ task[j].applicableColleges = <<"SMC">>
        /\ jobs[j].status = "processing"
        /\ http.req = [method |-> "GET", jobId |-> j]
        /\ http.res.body = jobs[j]
        /\ http.res.body.progress = "Processed 1/2 colleges"

\* C20: when the listing arrives and some entry's first name equals the requested name,
\* the task requests the agreements of the first such entry's id, whatever that id is
\* (0 included), and the job does not fail with the institution-not-found error.
C20_NamedInstitutionResolves ==
    \A j \in DOMAIN task :
        (/\ Len(resps[j]) >= 1
         /\ resps[j][1].ok
         /\ ~NoFirstName(resps[j][1].data, task[j].university))
        => /\ jobs[j].error # <<"University \"" \o task[j].university \o "\" not found">>
           /\ Len(reqs[j]) >= 2
           /\ \E m \in 1..Len(resps[j][1].data) :
                 /\ resps[j][1].data[m].names[1].name = task[j].university
                 /\ \A h \in 1..(m - 1) :
                       resps[j][1].data[h].names[1].name # task[j].university
                 /\ reqs[j][2].kind = "agreements"
                 /\ reqs[j][2].url = "https://assist.org/api/institutions/"
                                       \o ToString(resps[j][1].data[m].id) \o "/agreements"

=============================================================================
